---------------------------- MODULE Spec2Model ----------------------------
(***************************************************************************)
(* The arm-crossing p-value simulation (streamlit-simulation.py) as a      *)
(* state machine.                                                          *)
(*                                                                         *)
(* The session state is the pair (differences, running).  Streamlit runs   *)
(* main() from top to bottom once per widget event or requested rerun; a   *)
(* run is modelled in three steps, in source order:                        *)
(*   Controls   lines 108-125  the two buttons and the target selectbox    *)
(*   Metrics    lines 131-141  the count and the p-value                   *)
(*   AutoUpdate lines 151-154  one generate_sample() draw and the rerun    *)
(* The return values of st.button / st.selectbox are inputs: any           *)
(* combination may arrive in a run (Streamlit coalesces the clicks that    *)
(* arrive while a rerun is pending).                                       *)
(*                                                                         *)
(* A statistic is the exact fraction <<numerator, denominator>> of the     *)
(* value the code computes in floating point.  For every one of the 29150  *)
(* non-degenerate tallies of 54 trials the double-precision result lies    *)
(* in [-1, 1] and compares with 0.06 exactly as the fraction compares      *)
(* with 3/50, so the fraction decides the same tests as the float.         *)
(***************************************************************************)
EXTENDS Integers, Sequences, FiniteSets

VARIABLES
    differences,     \* st.session_state.differences
    running,         \* st.session_state.running
    pc,              \* where the script is: idle, controls, metrics, update,
                     \* raised
    startClicked,    \* what st.button(Start/Stop) returned in this run
    resetClicked,    \* what st.button("Reset") returned in this run
    buttonLabel,     \* the label the Start/Stop button was drawn with
    target_samples,  \* what st.selectbox returned in this run
    current_samples, \* the local read at line 131
    p_value,         \* the metric shown at line 141, or NoPValue
    error,           \* the exception that ended the run, if any
    counts,          \* generate_sample's tallies
    trial,           \* generate_sample's loop index
    run_start        \* differences as the current run found it

vars == <<differences, running, pc, startClicked, resetClicked, buttonLabel,
          target_samples, current_samples, p_value, error, counts, trial,
          run_start>>

-----------------------------------------------------------------------------
(* Program constants and the bounds of the model *)

\* range(54): the number of trials of one batch
BatchSize == 54

\* options=[100, 500, 1000, 5000, 10000]: five options
NumOptions == 5

\* index=2 (zero-based): the third option is preselected
DefaultIndex == 3

\* The smallest target of the model.  The five options are scaled to the
\* consecutive counts TargetBase .. TargetBase + 4; the program's are
\* 100 .. 10000.  Only their order and the counts between them matter.
TargetBase == 1

TargetOptions == [i \in 1..NumOptions |-> TargetBase + i - 1]

MaxTarget == TargetOptions[NumOptions]

Abs(x) == IF x < 0 THEN -x ELSE x

Max(a, b) == IF a >= b THEN a ELSE b

\* observed_diff = 0.06
observed_diff == <<3, 50>>

NoPValue == <<>>

NoError == "none"

ZeroDivisionError == "ZeroDivisionError"

Tally(msx, mdx, fsx, fdx) ==
    [M_Sx |-> msx, M_Dx |-> mdx, F_Sx |-> fsx, F_Dx |-> fdx]

\* counts = {'M_Sx': 0, 'M_Dx': 0, 'F_Sx': 0, 'F_Dx': 0}
ZeroCounts == Tally(0, 0, 0, 0)

\* The batches the session model draws from, each a tally of 54 trials:
\*   3/50 - 0/4    =  0.06   exactly the observed difference
\*   13/27 - 14/27 = -1/27   inside the observed band, negative
\*   0/27 - 27/27  = -1      the extreme
\*   no male trial, no female trial: the two degenerate batches
SampleBatches ==
    { Tally(4, 0, 47, 3),
      Tally(13, 14, 14, 13),
      Tally(0, 27, 27, 0),
      Tally(0, 0, 30, 24),
      Tally(20, 34, 0, 0) }

-----------------------------------------------------------------------------
(* generate_sample *)

Males(c) == c.M_Dx + c.M_Sx

Females(c) == c.F_Dx + c.F_Sx

\* Lines 26-27 divide Python ints: a zero group total raises
DivisionByZero(c) == Males(c) = 0 \/ Females(c) = 0

\* generate_sample with the two proportions added instead of subtracted
generate_sample_sum(c) ==
    <<c.F_Dx * Males(c) + c.M_Dx * Females(c), Females(c) * Males(c)>>

\* female_dx - male_dx, for a batch with both groups present
generate_sample(c) ==
    <<c.F_Dx * Males(c) - c.M_Dx * Females(c), Females(c) * Males(c)>>

\* One pass of the loop of lines 11-14 and 22-23
SampleTrial ==
    /\ pc = "update"
    /\ running /\ current_samples < target_samples
    /\ trial < BatchSize
    /\ \E sex \in {"M", "F"}, arm \in {"Sx", "Dx"} :
          counts' =
             IF sex = "M"
             THEN IF arm = "Sx" THEN [counts EXCEPT !.M_Sx = @ + 1]
                                ELSE [counts EXCEPT !.M_Dx = @ + 1]
             ELSE IF arm = "Sx" THEN [counts EXCEPT !.F_Sx = @ + 1]
                                ELSE [counts EXCEPT !.F_Dx = @ + 1]
    /\ trial' = trial + 1
    /\ UNCHANGED <<differences, running, pc, startClicked, resetClicked,
                   buttonLabel, target_samples, current_samples, p_value,
                   error, run_start>>

-----------------------------------------------------------------------------
(* The p-value estimator *)

\* The test with a strict comparison: abs(d) > abs(observed)
StrictlyMoreExtreme(d, observed) ==
    Abs(d[1]) * observed[2] > Abs(observed[1]) * d[2]

\* The test without abs on the observed value: abs(d) >= observed
AsExtremeSigned(d, observed) ==
    Abs(d[1]) * observed[2] >= observed[1] * d[2]

\* abs(d) >= abs(observed)
AtLeastAsExtreme(d, observed) ==
    Abs(d[1]) * observed[2] >= Abs(observed[1]) * d[2]

\* sum(abs(d) >= abs(observed) for d in ds)
RECURSIVE SumExtreme(_, _)
SumExtreme(ds, observed) ==
    IF ds = <<>> THEN 0
    ELSE (IF AtLeastAsExtreme(Head(ds), observed) THEN 1 ELSE 0)
         + SumExtreme(Tail(ds), observed)

\* sum(...) / n as the fraction <<sum, n>>
Estimate(ds, observed, n) == <<SumExtreme(ds, observed), n>>

-----------------------------------------------------------------------------
(* The session *)

\* The state the first script run leaves: no widget exists before it, so
\* nothing is clicked, the preselected target is returned, the count is 0,
\* no p-value is shown and nothing is sampled.
Init ==
    /\ differences = <<>>
    /\ running = FALSE
    /\ pc = "idle"
    /\ startClicked = FALSE
    /\ resetClicked = FALSE
    /\ buttonLabel = "Start"
    /\ target_samples = TargetOptions[DefaultIndex]
    /\ current_samples = 0
    /\ p_value = NoPValue
    /\ error = NoError
    /\ counts = ZeroCounts
    /\ trial = 0
    /\ run_start = <<>>

\* A widget event makes Streamlit run the script
UserEvent ==
    /\ pc = "idle"
    /\ pc' = "controls"
    /\ UNCHANGED <<differences, running, startClicked, resetClicked,
                   buttonLabel, target_samples, current_samples, p_value,
                   error, counts, trial, run_start>>

\* Controls with line 118 left out: Reset clears the list, not the flag
ControlsResetKeepsRunning(click_start, click_reset, sel) ==
    /\ pc = "controls"
    /\ buttonLabel' = IF running THEN "Stop" ELSE "Start"
    /\ startClicked' = click_start
    /\ resetClicked' = click_reset
    /\ running' = IF click_start THEN ~running ELSE running
    /\ differences' = IF click_reset THEN <<>> ELSE differences
    /\ target_samples' = TargetOptions[sel]
    /\ run_start' = differences
    /\ p_value' = NoPValue
    /\ error' = NoError
    /\ pc' = "metrics"
    /\ UNCHANGED <<current_samples, counts, trial>>

\* Lines 108-125: Start/Stop toggles the flag, then Reset clears both
Controls(click_start, click_reset, sel) ==
    /\ pc = "controls"
    /\ buttonLabel' = IF running THEN "Stop" ELSE "Start"
    /\ startClicked' = click_start
    /\ resetClicked' = click_reset
    /\ running' = IF click_reset THEN FALSE
                  ELSE IF click_start THEN ~running ELSE running
    /\ differences' = IF click_reset THEN <<>> ELSE differences
    /\ target_samples' = TargetOptions[sel]
    /\ run_start' = differences
    /\ p_value' = NoPValue
    /\ error' = NoError
    /\ pc' = "metrics"
    /\ UNCHANGED <<current_samples, counts, trial>>

\* Metrics without the guard of line 138
MetricsUnguarded ==
    /\ pc = "metrics"
    /\ current_samples' = Len(differences)
    /\ p_value' = Estimate(differences, observed_diff, current_samples')
    /\ pc' = "update"
    /\ UNCHANGED <<differences, running, startClicked, resetClicked,
                   buttonLabel, target_samples, error, counts, trial,
                   run_start>>

\* Lines 131-141: the count, and the p-value when the count is positive
Metrics ==
    /\ pc = "metrics"
    /\ current_samples' = Len(differences)
    /\ p_value' = IF current_samples' > 0
                  THEN Estimate(differences, observed_diff, current_samples')
                  ELSE NoPValue
    /\ pc' = "update"
    /\ UNCHANGED <<differences, running, startClicked, resetClicked,
                   buttonLabel, target_samples, error, counts, trial,
                   run_start>>

\* Line 152 with <= for <
ShouldSampleInclusive == running /\ current_samples <= target_samples

\* Line 152
ShouldSample == running /\ current_samples < target_samples

\* Tick with the new value inserted at the front of the list
TickPrepend(c) ==
    /\ pc = "update"
    /\ running /\ current_samples < target_samples
    /\ counts' = c
    /\ trial' = BatchSize
    /\ \/ /\ ~DivisionByZero(c)
          /\ differences' = <<generate_sample(c)>> \o differences
          /\ error' = error
          /\ pc' = "controls"
       \/ /\ DivisionByZero(c)
          /\ differences' = differences
          /\ error' = ZeroDivisionError
          /\ pc' = "raised"
    /\ UNCHANGED <<running, startClicked, resetClicked, buttonLabel,
                   target_samples, current_samples, p_value, run_start>>

\* Tick with a division that yields NaN (0/0) instead of raising
TickAppendsPlaceholder(c) ==
    /\ pc = "update"
    /\ running /\ current_samples < target_samples
    /\ counts' = c
    /\ trial' = BatchSize
    /\ differences' = Append(differences,
                             IF DivisionByZero(c) THEN <<0, 0>>
                             ELSE generate_sample(c))
    /\ error' = error
    /\ pc' = "controls"
    /\ UNCHANGED <<running, startClicked, resetClicked, buttonLabel,
                   target_samples, current_samples, p_value, run_start>>

\* Lines 153-154 with the batch c drawn: the statistic is appended and a
\* rerun requested, or the division raises before append is called and the
\* run ends with the exception
Tick(c) ==
    /\ pc = "update"
    /\ ShouldSample
    /\ counts' = c
    /\ trial' = BatchSize
    /\ \/ /\ ~DivisionByZero(c)
          /\ differences' = Append(differences, generate_sample(c))
          /\ error' = error
          /\ pc' = "controls"
       \/ /\ DivisionByZero(c)
          /\ differences' = differences
          /\ error' = ZeroDivisionError
          /\ pc' = "raised"
    /\ UNCHANGED <<running, startClicked, resetClicked, buttonLabel,
                   target_samples, current_samples, p_value, run_start>>

\* The exception leaves main(): Streamlit reports it, the run ends and no
\* rerun is requested (line 154 was not reached)
RunFails ==
    /\ pc = "raised"
    /\ pc' = "idle"
    /\ UNCHANGED <<differences, running, startClicked, resetClicked,
                   buttonLabel, target_samples, current_samples, p_value,
                   error, counts, trial, run_start>>

\* NoUpdate that also clears the flag once the loop condition fails
NoUpdateAutoStop ==
    /\ pc = "update"
    /\ ~ShouldSample
    /\ pc' = "idle"
    /\ running' = FALSE
    /\ UNCHANGED <<differences, startClicked, resetClicked,
                   buttonLabel, target_samples, current_samples, p_value,
                   error, counts, trial, run_start>>

\* Line 152 false: the script ends and the session waits for an event
NoUpdate ==
    /\ pc = "update"
    /\ ~ShouldSample
    /\ pc' = "idle"
    /\ UNCHANGED <<differences, running, startClicked, resetClicked,
                   buttonLabel, target_samples, current_samples, p_value,
                   error, counts, trial, run_start>>

ProcessControls ==
    \E click_start \in BOOLEAN, click_reset \in BOOLEAN, sel \in 1..NumOptions :
        Controls(click_start, click_reset, sel)

AutoUpdate == \E c \in SampleBatches : Tick(c)

Next ==
    \/ UserEvent
    \/ ProcessControls
    \/ Metrics
    \/ AutoUpdate
    \/ NoUpdate
    \/ RunFails

Spec == Init /\ [][Next]_vars

\* A started or requested script run executes to its end; nothing obliges
\* the user to click.
ScriptStep == ProcessControls \/ Metrics \/ AutoUpdate \/ NoUpdate \/ RunFails

FairSpec == Spec /\ WF_vars(ScriptStep)

-----------------------------------------------------------------------------
(* The sampler on its own: the first draw of a session, trial by trial.    *)
(* SamplerInit is the session state in which line 153 first calls          *)
(* generate_sample (Start was clicked on the empty distribution); the      *)
(* loop then tallies its 54 trials one at a time, over every outcome.      *)

SamplerInit ==
    /\ differences = <<>>
    /\ running = TRUE
    /\ pc = "update"
    /\ startClicked = TRUE
    /\ resetClicked = FALSE
    /\ buttonLabel = "Start"
    /\ target_samples = TargetOptions[DefaultIndex]
    /\ current_samples = 0
    /\ p_value = NoPValue
    /\ error = NoError
    /\ counts = ZeroCounts
    /\ trial = 0
    /\ run_start = <<>>

\* Lines 25-29 and 153-154 on the tallies the loop produced
SampledTick ==
    /\ trial = BatchSize
    /\ Tick(counts)

SamplerNext ==
    \/ SampleTrial
    \/ SampledTick

SamplerSpec == SamplerInit /\ [][SamplerNext]_vars

-----------------------------------------------------------------------------
(* Properties *)

\* -1 <= d <= 1 for a fraction d
InUnitInterval(d) == d[2] > 0 /\ -d[2] <= d[1] /\ d[1] <= d[2]

TallySum(c) == c.M_Sx + c.M_Dx + c.F_Sx + c.F_Dx

\* C7: once the 54 trials are tallied the four tallies sum to 54; when both
\* sex groups have a trial the statistic generate_sample returns is
\* F_Dx/(F_Dx+F_Sx) - M_Dx/(M_Dx+M_Sx) and lies in [-1, 1]; and every value
\* in the distribution lies in [-1, 1].
C7_StatisticInUnitInterval ==
    /\ trial = BatchSize =>
          /\ TallySum(counts) = BatchSize
          /\ ~(Males(counts) = 0 \/ Females(counts) = 0) =>
                /\ InUnitInterval(generate_sample(counts))
                /\ generate_sample(counts)[1] * (counts.F_Dx + counts.F_Sx)
                                              * (counts.M_Dx + counts.M_Sx)
                   = (counts.F_Dx * (counts.M_Dx + counts.M_Sx)
                      - counts.M_Dx * (counts.F_Dx + counts.F_Sx))
                     * generate_sample(counts)[2]
    /\ \A i \in DOMAIN differences : InUnitInterval(differences[i])

\* C7 witness: a full batch with both groups present was drawn and its
\* statistic, the extreme -1, is in the distribution.
C7_Witness ==
    /\ trial = BatchSize
    /\ Males(counts) > 0 /\ Females(counts) > 0
    /\ Len(differences) = 1
    /\ differences[1][1] = -differences[1][2]

\* The observed values the estimator is examined on: 0, 0.06, -0.06,
\* 1/27, 1/2 and -1
ObservedValues == {<<0, 1>>, <<3, 50>>, <<-3, 50>>, <<1, 27>>, <<1, 2>>, <<-1, 1>>}

\* The number of positions of ds whose value v has abs(v) >= abs(o)
TailCount(ds, o) ==
    Cardinality({i \in DOMAIN ds : Abs(ds[i][1]) * o[2] >= Abs(o[1]) * ds[i][2]})

\* C1: from the moment a run has processed a Reset click until the next run
\* begins, the distribution is empty and the running flag is false, both
\* together, whatever else was clicked or selected in that run; nothing is
\* appended in that run.
C1_ResetAtomic ==
    resetClicked => (differences = <<>> /\ running = FALSE)

\* C1 witness: a run that found the session running with samples has
\* processed a Reset click and ended.
C1_Witness ==
    /\ resetClicked
    /\ pc = "idle"
    /\ run_start # <<>>
    /\ buttonLabel = "Stop"
    /\ differences = <<>>

\* C2 as stated: in every state the count is at most the configured target.
C2_CountWithinTarget == Len(differences) <= target_samples

\* C2 as amended: the count never exceeds the largest target option, and no
\* step takes it above the larger of its previous value and the target
\* configured in the run; it may exceed the current target after a lower
\* target has been selected.
C2_CountBoundedByTargets ==
    /\ [](Len(differences) <= MaxTarget)
    /\ [][Len(differences') <= Max(Len(differences), target_samples')]_vars

\* C2 witness: the session is running with more values than the target
\* selected in this run.
C2_Witness ==
    /\ running
    /\ pc = "update"
    /\ Len(differences) > target_samples

C4_EstimatorGuarded ==
    /\ p_value # NoPValue =>
          /\ current_samples > 0
          /\ p_value[2] > 0
          /\ Len(differences) > 0
    /\ resetClicked => p_value = NoPValue

\* C4 witness: a run that reset a non-empty distribution has passed the
\* metrics without showing a p-value.
C4_Witness ==
    /\ pc = "update"
    /\ resetClicked
    /\ run_start # <<>>
    /\ current_samples = 0
    /\ p_value = NoPValue

\* C5: when the p-value has just been computed its numerator is the number
\* of values v with abs(v) >= 0.06, its denominator is the length of the
\* distribution, and it lies in [0, 1]; the same holds of the estimator for
\* every observed value.
C5_PValueIsTailFraction ==
    (pc = "update" /\ p_value # NoPValue) =>
        /\ p_value[1] =
             Cardinality({i \in DOMAIN differences :
                             Abs(differences[i][1]) * 50 >= 3 * differences[i][2]})
        /\ p_value[2] = Len(differences)
        /\ 0 <= p_value[1] /\ p_value[1] <= p_value[2]
        /\ \A o \in ObservedValues :
              Estimate(differences, o, current_samples) =
                 <<TailCount(differences, o), Len(differences)>>

\* C5 witness: a p-value strictly between 0 and 1 was computed on a
\* distribution holding a value equal to the observed 0.06.
C5_Witness ==
    /\ pc = "update"
    /\ p_value # NoPValue
    /\ 0 < p_value[1] /\ p_value[1] < p_value[2]
    /\ \E i \in DOMAIN differences : differences[i][1] * 50 = 3 * differences[i][2]

\* C6: on every non-empty distribution, for observed values o1, o2 with
\* abs(o1) <= abs(o2), the p-value for o2 is at most the p-value for o1.
C6_MonotoneInObserved ==
    differences # <<>> =>
        \A o1 \in ObservedValues, o2 \in ObservedValues :
            Abs(o1[1]) * o2[2] <= Abs(o2[1]) * o1[2] =>
                LET p1 == Estimate(differences, o1, Len(differences))
                    p2 == Estimate(differences, o2, Len(differences))
                IN  p2[1] * p1[2] <= p1[1] * p2[2]

\* C6 witness: a distribution on which the p-value strictly drops between
\* the observed values 0.06 and 1/2.
C6_Witness ==
    /\ differences # <<>>
    /\ TailCount(differences, <<1, 2>>) < TailCount(differences, <<3, 50>>)
    /\ TailCount(differences, <<1, 2>>) > 0

\* C8: every value in the distribution is a number (no 0/0, no x/0); and a
\* draw whose batch has an empty sex group ends the run with
\* ZeroDivisionError, leaving the distribution and the running flag as they
\* were before the draw.
C8_DegenerateBatchAppendsNothing ==
    /\ [](\A i \in DOMAIN differences : differences[i][2] > 0)
    /\ [][(/\ pc = "update"
           /\ pc' # "update"
           /\ running /\ current_samples < target_samples
           /\ Males(counts') = 0 \/ Females(counts') = 0)
          => /\ error' = ZeroDivisionError
             /\ differences' = differences
             /\ running' = running]_vars

\* C8 witness: a run on a non-empty distribution has ended with the
\* division error on a batch with no male trial.
C8_Witness ==
    /\ pc = "idle"
    /\ error = ZeroDivisionError
    /\ Males(counts) = 0
    /\ differences # <<>>
    /\ running

\* C9: for each target t, whenever the running flag is set with target t
\* selected and the count below t, the count eventually equals t unless a
\* run processes a Start/Stop or Reset click, another target is selected or
\* a draw raises the division error.
C9_RunReachesTarget ==
    \A k \in 1..NumOptions :
        [](  (running /\ target_samples = TargetOptions[k]
                      /\ Len(differences) < TargetOptions[k])
             => <>(  \/ Len(differences) = TargetOptions[k]
                     \/ target_samples # TargetOptions[k]
                     \/ pc = "metrics" /\ (startClicked \/ resetClicked)
                     \/ pc = "raised" ))

\* C10: the running flag is cleared only by a run's Start/Stop or Reset
\* click, never by reaching the target; whenever the flag is set and the
\* count read is below the target (as after a larger target is selected) the
\* update step draws a sample; and a Start/Stop click that finds the flag
\* set is a Stop click and clears it.
C10_TargetKeepsFlag ==
    [][ /\ (running /\ ~running') =>
              (pc = "controls" /\ (startClicked' \/ resetClicked'))
        /\ (pc = "update" /\ running /\ Len(differences) < target_samples) =>
              (Len(differences') = Len(differences) + 1 \/ error' = ZeroDivisionError)
        /\ (pc = "controls" /\ pc' = "metrics" /\ running /\ startClicked') =>
              (buttonLabel' = "Stop" /\ ~running') ]_vars

\* C10 witness: the count has reached the target, the run has ended with no
\* click in it, and the flag is still set.
C10_Witness ==
    /\ pc = "idle"
    /\ running
    /\ ~startClicked
    /\ Len(differences) = target_samples
    /\ error = NoError

=============================================================================
